---------------------------- MODULE Spec2Model ----------------------------
(***************************************************************************)
(* Model of the Vibe Planner MCP server (src/main.py): the vibe_planner    *)
(* tool and the provider helpers it awaits, one after the other.           *)
(*                                                                         *)
(* A request is a record holding the arguments, the local variables and    *)
(* the position (pc) of one vibe_planner coroutine, together with the log  *)
(* of the outbound HTTP calls it issued.  Every "await client.get/post"    *)
(* is split in two steps: the call is issued (XCall) and its reply is      *)
(* received and handled up to the next await or return (XReply).  Replies  *)
(* are chosen by the environment among everything the transport layer and  *)
(* the provider can answer.                                                *)
(*                                                                         *)
(* Python text is a sequence of one-character strings, so that strip(),    *)
(* lower() and the "in" substring test are computed and not assumed.  An   *)
(* optional argument is a sequence of length 0 (None) or 1.                *)
(***************************************************************************)
EXTENDS Integers, Sequences, FiniteSets, TLC

VARIABLES
    runs,    \* request id -> state of that vibe_planner coroutine
    environ, \* the credentials present in os.environ (read once at import)
    free,    \* the services whose replies are unconstrained
    fault    \* the fault injected in the replies of request "inj"

vars == <<runs, environ, free, fault>>

-----------------------------------------------------------------------------
(* Python values *)

\* None, for optional arguments: Some(x) is <<x>>.
None == <<>>
Some(x) == <<x>>

\* The value None where a string is expected (dict.get without default).
PyNone == "None"

\* An empty dict, {}.
EmptyDict == [k \in {} |-> ""]

\* dict.get(key, default)
Get(d, key, default) == IF key \in DOMAIN d THEN d[key] ELSE default

\* Words used below, as Python str values.
S_cozy == <<"c","o","z","y">>
S_rainy == <<"r","a","i","n","y">>
S_adventure == <<"a","d","v","e","n","t","u","r","e">>
S_exciting == <<"e","x","c","i","t","i","n","g">>
S_scary == <<"s","c","a","r","y">>
S_spooky == <<"s","p","o","o","k","y">>
S_funny == <<"f","u","n","n","y">>
S_comedy == <<"c","o","m","e","d","y">>
S_romantic_comedy == <<"r","o","m","a","n","t","i","c"," ">> \o S_comedy
S_drama == <<"d","r","a","m","a">>
S_action == <<"a","c","t","i","o","n">>
S_horror == <<"h","o","r","r","o","r">>
S_movie == <<"m","o","v","i","e">>
S_cafe == <<"c","a","f","e">>
S_coffee == <<"c","o","f","f","e","e">>
S_restaurant == <<"r","e","s","t","a","u","r","a","n","t">>
S_day == <<"d","a","y">>
S_night == <<"n","i","g","h","t">>
S_chill == <<"c","h","i","l","l">>
S_Seattle == <<"S","e","a","t","t","l","e">>

\* str.lower(), on the letters the inputs use.
UpperCase ==
    [c \in {"A","C","D","E","F","N","R","S","Y"} |->
        CASE c = "A" -> "a" [] c = "C" -> "c" [] c = "D" -> "d" [] c = "E" -> "e"
          [] c = "F" -> "f" [] c = "N" -> "n" [] c = "R" -> "r" [] c = "S" -> "s"
          [] c = "Y" -> "y"]

LowerChar(c) == IF c \in DOMAIN UpperCase THEN UpperCase[c] ELSE c

lower(s) == [k \in 1..Len(s) |-> LowerChar(s[k])]

\* The characters str.strip() removes.
Whitespace == {" ", "\t", "\n"}

RECURSIVE lstrip(_)
lstrip(s) == IF s # <<>> /\ Head(s) \in Whitespace THEN lstrip(Tail(s)) ELSE s

RECURSIVE rstrip(_)
rstrip(s) ==
    IF s # <<>> /\ s[Len(s)] \in Whitespace THEN rstrip(SubSeq(s, 1, Len(s) - 1)) ELSE s

strip(s) == rstrip(lstrip(s))

\* The substring test: needle in hay.
Contains(hay, needle) ==
    \E k \in 0..(Len(hay) - Len(needle)) : SubSeq(hay, k + 1, k + Len(needle)) = needle


-----------------------------------------------------------------------------
(* The environment: credentials, replies of the transport layer *)

\* The credentials the module reads from os.environ.
Credentials ==
    {"SPOTIFY_CLIENT_ID", "SPOTIFY_CLIENT_SECRET", "YOUTUBE_API_KEY",
     "OMDB_API_KEY", "GOOGLE_MAPS_API_KEY"}

\* Missing that finds every credential set.
Missing_never(key) == FALSE

\* "not KEY": the variable is unset (or empty).
Missing(key) == key \notin environ

\* A JSON null inside a list of items.
JsonNull == [py_none |-> TRUE]

\* Python truthiness of a JSON item (a dict or null).
Truthy(item) == item # EmptyDict /\ item # JsonNull

\* What an await client.get / client.post can end with:
\*   transport    the call raises httpx.TransportError (connection, timeout)
\*   http_status  raise_for_status() raises httpx.HTTPStatusError
\*   bad_json     resp.json() raises ValueError
\*   json_null    resp.json() returns None
\*   json         resp.json() returns the dict "body"
Transport == [kind |-> "transport", code |-> 0, body |-> EmptyDict]
HttpStatus(code) == [kind |-> "http_status", code |-> code, body |-> EmptyDict]
BadJson == [kind |-> "bad_json", code |-> 200, body |-> EmptyDict]
JsonNone == [kind |-> "json_null", code |-> 200, body |-> EmptyDict]
Json(body) == [kind |-> "json", code |-> 200, body |-> body]

\* No reply is held (a call is in flight, or none was made in this step).
NoReply == [kind |-> "none", code |-> 0, body |-> EmptyDict]

\* The failures every service can answer with.
Failures == {Transport, HttpStatus(401), HttpStatus(500), BadJson, JsonNone}

\* httpx.HTTPError: TransportError and HTTPStatusError.
IsHTTPError(r) == r.kind \in {"transport", "http_status"}

\* Spotify token endpoint bodies.
TokenReplies ==
    Failures \cup
    { Json([access_token |-> "tok"]),
      Json([access_token |-> ""]),
      Json([error |-> "invalid_client"]) }

\* Raw playlists (data["playlists"]["items"] entries; external_urls.spotify
\* and images[0].url are flattened to "spotify" and "image").
P_full == [name |-> "Rainy Jazz", spotify |-> "sp/1", image |-> "img/1"]
P_noname == [spotify |-> "sp/2"]

SpotifyReplies ==
    Failures \cup
    { Json(EmptyDict),
      Json([items |-> <<>>]),
      Json([items |-> <<P_full>>]),
      Json([items |-> <<JsonNull, P_full, P_noname>>]) }

\* Raw videos (id.videoId and snippet.title flattened).
V_full == [videoId |-> "v1", title |-> "Soup"]
V_notitle == [videoId |-> "v2"]
V_noid == [title |-> "Stew"]
V_two == [videoId |-> "v3", title |-> "Chai"]

YoutubeReplies ==
    Failures \cup
    { Json(EmptyDict),
      Json([items |-> <<>>]),
      Json([items |-> <<V_full>>]),
      Json([items |-> <<V_notitle, V_full, JsonNull, V_noid, V_two>>]) }

\* Raw volumes (volumeInfo flattened).
B_full == [title |-> "Walden", authors |-> <<"Thoreau">>, infoLink |-> "bk/1"]
B_notitle == [authors |-> <<"Anon">>, infoLink |-> "bk/2"]

BooksReplies ==
    Failures \cup
    { Json(EmptyDict),
      Json([items |-> <<>>]),
      Json([items |-> <<B_full>>]),
      Json([items |-> <<B_full, B_notitle>>]),
      Json([items |-> <<B_full, JsonNull>>]) }

\* The default of the helpers' "limit" parameter.
Limit == 5

\* Raw OMDb search hits.
M_full == [Title |-> "Alien", Year |-> "1979", Type |-> "movie"]
M_notitle == [Year |-> "2001"]
M_seq(n) == [k \in 1..n |-> [Title |-> "Saw", Year |-> "2004", Type |-> "movie"]]

OmdbReplies ==
    Failures \cup
    { Json([Response |-> "False", Error |-> "Movie not found!"]),
      Json([Response |-> "False", Error |-> "Invalid API key!"]),
      Json([Response |-> "False", Error |-> "Request limit reached!"]),
      Json([Response |-> "True"]),
      Json([Response |-> "True", Search |-> <<>>]),
      Json([Response |-> "True", Search |-> <<M_full>>]),
      Json([Response |-> "True", Search |-> <<M_full, JsonNull, M_notitle>>]),
      Json([Response |-> "True", Search |-> <<JsonNull>>]),
      Json([Response |-> "True", Search |-> M_seq(Limit + 1)]) }

\* Raw places.
C_full == [place_id |-> "pl1", name |-> "Moka", vicinity |-> "1 Pike St", rating |-> "4.5"]
C_noname == [formatted_address |-> "2 Pine St"]

PlacesStatuses ==
    {"OK", "ZERO_RESULTS", "REQUEST_DENIED", "OVER_QUERY_LIMIT", "INVALID_REQUEST"}

PlacesReplies ==
    Failures \cup
    { Json(EmptyDict),
      Json([status |-> "OK"]),
      Json([status |-> "OK", results |-> <<C_full>>]),
      Json([status |-> "OK", results |-> <<C_full, JsonNull, C_noname>>]),
      Json([status |-> "OK", results |-> <<JsonNull>>]) } \cup
    { Json([status |-> st, results |-> <<>>]) : st \in PlacesStatuses }

\* Geocoding results (geometry.location flattened).
G_seattle == [lat |-> "47.60", lng |-> "-122.33"]
G_other == [lat |-> "0.0", lng |-> "0.0"]
G_nolng == [lat |-> "47.60"]

GeocodeReplies ==
    Failures \cup
    { Json(EmptyDict),
      Json([status |-> "OK"]),
      Json([status |-> "OK", results |-> <<>>]),
      Json([status |-> "OK", results |-> <<G_seattle, G_other>>]),
      Json([status |-> "OK", results |-> <<G_nolng, G_seattle>>]),
      Json([status |-> "ZERO_RESULTS", results |-> <<>>]),
      Json([status |-> "REQUEST_DENIED", results |-> <<>>]) }

-----------------------------------------------------------------------------
(* Result normalisation of the five providers *)

\* items[:n]
Take(items, n) == SubSeq(items, 1, IF Len(items) < n THEN Len(items) ELSE n)

\* Truthiness of an optional string: neither None nor "".
StrTruthy(x) == x # PyNone /\ x # ""

\* A helper either returns a list or raises (McpError or any Exception).
Returned(v) == [raised |-> FALSE, value |-> v]
Raised == [raised |-> TRUE, value |-> <<>>]

Playlist(p) ==
    [ name |-> Get(p, "name", "Unknown"),
      link |-> Get(p, "spotify", ""),
      image |-> Get(p, "image", "") ]

NormalizePlaylists(items) ==
    LET kept == SelectSeq(items, Truthy) IN [k \in 1..Len(kept) |-> Playlist(kept[k])]

VideoOk(it) ==
    /\ Truthy(it)
    /\ StrTruthy(Get(it, "videoId", PyNone))
    /\ StrTruthy(Get(it, "title", PyNone))

Video(it) == [title |-> it.title, link |-> <<"https://www.youtube.com/watch?v=", it.videoId>>]

NormalizeVideos(items) ==
    LET kept == SelectSeq(items, VideoOk) IN [k \in 1..Len(kept) |-> Video(kept[k])]

Book(it) ==
    [ title |-> Get(it, "title", PyNone),
      authors |-> Get(it, "authors", <<>>),
      link |-> Get(it, "infoLink", PyNone) ]

\* it.get(...) raises AttributeError on a null item.
NormalizeBooks(items) ==
    IF \E k \in 1..Len(items) : items[k] = JsonNull
    THEN Raised
    ELSE Returned([k \in 1..Len(items) |-> Book(items[k])])

Movie(m) ==
    [ title |-> Get(m, "Title", "Unknown Title"),
      year |-> Get(m, "Year", "Unknown"),
      type |-> Get(m, "Type", "Unknown") ]

NormalizeMovies(results) ==
    LET kept == SelectSeq(results, Truthy) IN [k \in 1..Len(kept) |-> Movie(kept[k])]

Cafe(c, keyword) ==
    [ name |-> Get(c, "name", "Unknown Cafe"),
      address |-> Get(c, "vicinity", Get(c, "formatted_address", "Unknown Address")),
      rating |-> Get(c, "rating", "No rating"),
      maps_link |->
          IF StrTruthy(Get(c, "place_id", ""))
          THEN <<"https://www.google.com/maps/place/?q=place_id:", c.place_id>>
          ELSE <<>>,
      search_strategy |-> keyword ]

NormalizeCafes(results, keyword) ==
    LET kept == SelectSeq(results, Truthy)
    IN  [k \in 1..Len(kept) |-> Cafe(kept[k], keyword)]

-----------------------------------------------------------------------------
(* One vibe_planner request *)

\* The coroutine before its first step: arguments bound, nothing done yet.
NewRequest(vibe, loc, lat, lng) ==
    [ vibe_description |-> vibe,
      location |-> loc,
      latitude |-> lat,
      longitude |-> lng,
      pc |-> "start",
      spotify_res |-> <<>>,
      youtube_res |-> <<>>,
      books_res |-> <<>>,
      movies_res |-> <<>>,
      cafes_res |-> <<>>,
      location_info |-> EmptyDict,
      final_lat |-> None,
      final_lng |-> None,
      token |-> PyNone,
      search_terms |-> <<>>,
      search_strategies |-> <<>>,
      i |-> 0,
      reply |-> NoReply,
      net |-> <<>>,
      result |-> [kind |-> "pending"] ]

\* One outbound HTTP call: the service, the search text (before quote_plus),
\* and for a places search its type and its location.
Call(svc, q, type, at) == [svc |-> svc, q |-> q, type |-> type, at |-> at]

\* Issue a call and suspend at the await.
Await(s, call, waitpc) ==
    [s EXCEPT !.net = Append(@, call), !.pc = waitpc, !.reply = NoReply]

\* A helper is left: its local variables are gone.
Leave(s, nextpc) ==
    [s EXCEPT !.pc = nextpc, !.token = PyNone, !.search_terms = <<>>,
              !.search_strategies = <<>>, !.i = 0]

\* Guarded without the except clause: the helper's exception leaves
\* vibe_planner, which fails with INTERNAL_ERROR.
Guarded_abort(s, slot, out, nextpc) ==
    IF out.raised
    THEN [Leave(s, "done") EXCEPT !.result = [kind |-> "error", code |-> "INTERNAL_ERROR"]]
    ELSE [Leave(s, nextpc) EXCEPT ![slot] = out.value]

\* Guarded with an except clause that starts over from empty results.
Guarded_reset(s, slot, out, nextpc) ==
    IF out.raised
    THEN [Leave(s, nextpc) EXCEPT !.spotify_res = <<>>, !.youtube_res = <<>>,
                                  !.books_res = <<>>, !.movies_res = <<>>,
                                  !.cafes_res = <<>>]
    ELSE [Leave(s, nextpc) EXCEPT ![slot] = out.value]

\* try: slot = await helper(...)  except Exception: print(...)
Guarded(s, slot, out, nextpc) ==
    IF out.raised
    THEN Leave(s, nextpc)
    ELSE [Leave(s, nextpc) EXCEPT ![slot] = out.value]

\* Validate testing only "not vibe_description".
Validate_nostrip(s) ==
    IF s.vibe_description = <<>>
    THEN [s EXCEPT !.pc = "done",
                   !.result = [kind |-> "error", code |-> "INVALID_PARAMS"],
                   !.reply = NoReply]
    ELSE [s EXCEPT !.pc = "spotify_token", !.reply = NoReply]

\* lines 439-449
Validate(s) ==
    IF s.vibe_description = <<>> \/ strip(s.vibe_description) = <<>>
    THEN [s EXCEPT !.pc = "done",
                   !.result = [kind |-> "error", code |-> "INVALID_PARAMS"],
                   !.reply = NoReply]
    ELSE [s EXCEPT !.pc = "spotify_token",
                   !.spotify_res = <<>>, !.youtube_res = <<>>, !.books_res = <<>>,
                   !.movies_res = <<>>, !.cafes_res = <<>>,
                   !.location_info = EmptyDict, !.reply = NoReply]

(* Music *)

\* fetch_spotify_playlists enters fetch_spotify_token: lines 95, 66-77
SpotifyTokenCall(s) ==
    IF Missing("SPOTIFY_CLIENT_ID") \/ Missing("SPOTIFY_CLIENT_SECRET")
    THEN [Guarded(s, "spotify_res", Returned(<<>>), "youtube") EXCEPT !.reply = NoReply]
    ELSE Await(s, Call("spotify_token", <<>>, "", <<>>), "spotify_token_wait")

\* fetch_spotify_token after the await: lines 78-92
fetch_spotify_token(r) ==
    IF r.kind = "json"
    THEN [raised |-> FALSE, value |-> Get(r.body, "access_token", PyNone)]
    ELSE [raised |-> TRUE, value |-> PyNone]

\* SpotifyTokenReply searching with whatever the token endpoint returned.
SpotifyTokenReply_unchecked(s, r) ==
    LET t == fetch_spotify_token(r) IN
    IF t.raised
    THEN [Guarded(s, "spotify_res", Raised, "youtube") EXCEPT !.reply = r]
    ELSE [s EXCEPT !.token = t.value, !.pc = "spotify_search", !.reply = r]

\* lines 95-97
SpotifyTokenReply(s, r) ==
    LET t == fetch_spotify_token(r) IN
    IF t.raised
    THEN [Guarded(s, "spotify_res", Raised, "youtube") EXCEPT !.reply = r]
    ELSE IF ~StrTruthy(t.value)
    THEN [Guarded(s, "spotify_res", Returned(<<>>), "youtube") EXCEPT !.reply = r]
    ELSE [s EXCEPT !.token = t.value, !.pc = "spotify_search", !.reply = r]

\* lines 98-103
SpotifySearchCall(s) ==
    Await(s, Call("spotify_search", s.vibe_description, "", <<>>), "spotify_search_wait")

\* lines 104-128
fetch_spotify_playlists(r) ==
    CASE r.kind = "json_null" -> Returned(<<>>)
      [] r.kind = "json" -> Returned(NormalizePlaylists(Get(r.body, "items", <<>>)))
      [] OTHER -> Raised

SpotifySearchReply(s, r) ==
    [Guarded(s, "spotify_res", fetch_spotify_playlists(r), "youtube") EXCEPT !.reply = r]

(* Videos *)

S_recipe == <<"r","e","c","i","p","e">>

\* lines 132-138
YoutubeCall(s) ==
    IF Missing("YOUTUBE_API_KEY")
    THEN [Guarded(s, "youtube_res", Returned(<<>>), "books") EXCEPT !.reply = NoReply]
    ELSE Await(s, Call("youtube", s.vibe_description \o <<" ">> \o S_recipe, "", <<>>),
               "youtube_wait")

\* lines 139-161
fetch_youtube_recipes(r) ==
    CASE r.kind = "json_null" -> Returned(<<>>)
      [] r.kind = "json" -> Returned(NormalizeVideos(Get(r.body, "items", <<>>)))
      [] OTHER -> Raised

\* YoutubeReply sending the search again when the call failed.
YoutubeReply_retry(s, r) ==
    IF r.kind \notin {"json", "json_null"}
    THEN [s EXCEPT !.pc = "youtube", !.reply = r]
    ELSE [Guarded(s, "youtube_res", fetch_youtube_recipes(r), "books") EXCEPT !.reply = r]

YoutubeReply(s, r) ==
    [Guarded(s, "youtube_res", fetch_youtube_recipes(r), "books") EXCEPT !.reply = r]

(* Books *)

\* lines 165-169
BooksCall(s) == Await(s, Call("books", s.vibe_description, "", <<>>), "books_wait")

\* lines 170-182
fetch_google_books(r) ==
    IF r.kind = "json"
    THEN NormalizeBooks(Get(r.body, "items", <<>>))
    ELSE Raised

BooksReply(s, r) ==
    [Guarded(s, "books_res", fetch_google_books(r), "omdb_start") EXCEPT !.reply = r]

(* Movies *)

\* MoodTerms with "if" for "elif": the buckets add up.
MoodTerms_combined(vibe_lower) ==
    (IF Contains(vibe_lower, S_cozy) \/ Contains(vibe_lower, S_rainy)
     THEN <<S_romantic_comedy, S_drama>> ELSE <<>>)
    \o (IF Contains(vibe_lower, S_adventure) \/ Contains(vibe_lower, S_exciting)
        THEN <<S_action, S_adventure>> ELSE <<>>)
    \o (IF Contains(vibe_lower, S_scary) \/ Contains(vibe_lower, S_spooky)
        THEN <<S_horror>> ELSE <<>>)
    \o (IF Contains(vibe_lower, S_funny) \/ Contains(vibe_lower, S_comedy)
        THEN <<S_comedy>> ELSE <<>>)

\* The candidate list: lines 191-208
MoodTerms(vibe_lower) ==
    IF Contains(vibe_lower, S_cozy) \/ Contains(vibe_lower, S_rainy)
    THEN <<S_romantic_comedy, S_drama>>
    ELSE IF Contains(vibe_lower, S_adventure) \/ Contains(vibe_lower, S_exciting)
    THEN <<S_action, S_adventure>>
    ELSE IF Contains(vibe_lower, S_scary) \/ Contains(vibe_lower, S_spooky)
    THEN <<S_horror>>
    ELSE IF Contains(vibe_lower, S_funny) \/ Contains(vibe_lower, S_comedy)
    THEN <<S_comedy>>
    ELSE <<>>

SearchTerms(vibe) == <<vibe, vibe \o <<" ">> \o S_movie>> \o MoodTerms(lower(vibe))

\* lines 186-208
OmdbStart(s) ==
    IF Missing("OMDB_API_KEY")
    THEN [Guarded(s, "movies_res", Returned(<<>>), "location") EXCEPT !.reply = NoReply]
    ELSE [s EXCEPT !.search_terms = SearchTerms(s.vibe_description), !.i = 1,
                   !.pc = "omdb_call", !.reply = NoReply]

\* lines 210-217
OmdbCall(s) == Await(s, Call("omdb", s.search_terms[s.i], "", <<>>), "omdb_wait")

\* OmdbAttempt giving up the whole search on a failed call.
OmdbAttempt_failfast(r) ==
    LET results == Take(Get(r.body, "Search", <<>>), Limit) IN
    IF r.kind # "json"
    THEN [return |-> TRUE, value |-> <<>>]
    ELSE IF Get(r.body, "Response", PyNone) # "False" /\ results # <<>>
    THEN [return |-> TRUE, value |-> NormalizeMovies(results)]
    ELSE [return |-> FALSE, value |-> <<>>]

\* One pass of the loop body after the await, lines 218-256: the pass either
\* returns a list or goes on to the next search term.
OmdbAttempt(r) ==
    LET results == Take(Get(r.body, "Search", <<>>), Limit) IN
    IF r.kind = "json" /\ Get(r.body, "Response", PyNone) # "False" /\ results # <<>>
    THEN [return |-> TRUE, value |-> NormalizeMovies(results)]
    ELSE [return |-> FALSE, value |-> <<>>]

\* OmdbReply that keeps the hits and still tries the remaining terms.
OmdbReply_exhaustive(s, r) ==
    LET a == OmdbAttempt(r) IN
    IF s.i < Len(s.search_terms)
    THEN [s EXCEPT !.i = @ + 1, !.pc = "omdb_call", !.reply = r,
                   !.movies_res = IF a.return THEN a.value ELSE @]
    ELSE [Guarded(s, "movies_res", Returned(IF a.return THEN a.value ELSE s.movies_res),
                  "location") EXCEPT !.reply = r]

\* lines 210-259
OmdbReply(s, r) ==
    LET a == OmdbAttempt(r) IN
    IF a.return
    THEN [Guarded(s, "movies_res", Returned(a.value), "location") EXCEPT !.reply = r]
    ELSE IF s.i < Len(s.search_terms)
    THEN [s EXCEPT !.i = @ + 1, !.pc = "omdb_call", !.reply = r]
    ELSE [Guarded(s, "movies_res", Returned(<<>>), "location") EXCEPT !.reply = r]

(* Location *)

\* Truthiness of the optional location argument.
LocationGiven(s) == s.location # None /\ s.location[1] # <<>>

GeocodeFailedInfo(s) ==
    [ provided_location |-> s.location[1],
      error |-> "Could not geocode location",
      source |-> "failed_geocoding" ]

\* ResolveLocation geocoding whenever a location name is given.
ResolveLocation_name_first(s) ==
    LET t == [s EXCEPT !.final_lat = s.latitude, !.final_lng = s.longitude,
                       !.reply = NoReply]
    IN  IF LocationGiven(s)
        THEN IF Missing("GOOGLE_MAPS_API_KEY")
             THEN [t EXCEPT !.location_info = GeocodeFailedInfo(s), !.pc = "places_start"]
             ELSE Await(t, Call("geocode", s.location[1], "", <<>>), "geocode_wait")
        ELSE IF s.latitude # None /\ s.longitude # None
        THEN [t EXCEPT !.location_info =
                           [ coordinates |->
                                 [latitude |-> s.latitude[1], longitude |-> s.longitude[1]],
                             source |-> "provided_coordinates" ],
                       !.pc = "places_start"]
        ELSE [t EXCEPT !.pc = "places_start"]

\* ResolveLocation geocoding only when neither coordinate is supplied.
ResolveLocation_both_absent(s) ==
    LET t == [s EXCEPT !.final_lat = s.latitude, !.final_lng = s.longitude,
                       !.reply = NoReply]
    IN  IF (s.latitude = None /\ s.longitude = None) /\ LocationGiven(s)
        THEN IF Missing("GOOGLE_MAPS_API_KEY")
             THEN [t EXCEPT !.location_info = GeocodeFailedInfo(s), !.pc = "places_start"]
             ELSE Await(t, Call("geocode", s.location[1], "", <<>>), "geocode_wait")
        ELSE IF s.latitude # None /\ s.longitude # None
        THEN [t EXCEPT !.location_info =
                           [ coordinates |->
                                 [latitude |-> s.latitude[1], longitude |-> s.longitude[1]],
                             source |-> "provided_coordinates" ],
                       !.pc = "places_start"]
        ELSE [t EXCEPT !.pc = "places_start"]

\* lines 473-478 and 499-503, with geocode_location up to its await (365-375)
ResolveLocation(s) ==
    LET t == [s EXCEPT !.final_lat = s.latitude, !.final_lng = s.longitude,
                       !.reply = NoReply]
    IN  IF (s.latitude = None \/ s.longitude = None) /\ LocationGiven(s)
        THEN IF Missing("GOOGLE_MAPS_API_KEY")
             THEN [t EXCEPT !.location_info = GeocodeFailedInfo(s), !.pc = "places_start"]
             ELSE Await(t, Call("geocode", s.location[1], "", <<>>), "geocode_wait")
        ELSE IF s.latitude # None /\ s.longitude # None
        THEN [t EXCEPT !.location_info =
                           [ coordinates |->
                                 [latitude |-> s.latitude[1], longitude |-> s.longitude[1]],
                             source |-> "provided_coordinates" ],
                       !.pc = "places_start"]
        ELSE [t EXCEPT !.pc = "places_start"]

\* geocode_location taking the first candidate that has both coordinates.
geocode_location_first_complete(r) ==
    LET results == Get(r.body, "results", <<>>)
        complete == SelectSeq(results, LAMBDA c : {"lat", "lng"} \subseteq DOMAIN c)
    IN  [ raised |-> FALSE,
          value |->
              IF /\ r.kind = "json"
                 /\ Get(r.body, "status", PyNone) = "OK"
                 /\ complete # <<>>
              THEN Some(<<complete[1].lat, complete[1].lng>>)
              ELSE None ]

\* geocode_location without its except clauses.
geocode_location_uncaught(r) ==
    LET results == Get(r.body, "results", <<>>)
        first == IF results = <<>> THEN EmptyDict ELSE results[1]
        lat == Get(first, "lat", PyNone)
        lng == Get(first, "lng", PyNone)
    IN  [ raised |-> r.kind \in {"transport", "http_status", "bad_json"},
          value |->
              IF /\ r.kind = "json"
                 /\ Get(r.body, "status", PyNone) = "OK"
                 /\ results # <<>>
                 /\ lat # PyNone
                 /\ lng # PyNone
              THEN Some(<<lat, lng>>)
              ELSE None ]

\* geocode_location after the await, lines 376-416: coordinates or None; it
\* catches every exception itself.
geocode_location(r) ==
    LET results == Get(r.body, "results", <<>>)
        first == IF results = <<>> THEN EmptyDict ELSE results[1]
        lat == Get(first, "lat", PyNone)
        lng == Get(first, "lng", PyNone)
    IN  [ raised |-> FALSE,
          value |->
              IF /\ r.kind = "json"
                 /\ Get(r.body, "status", PyNone) = "OK"
                 /\ results # <<>>
                 /\ lat # PyNone
                 /\ lng # PyNone
              THEN Some(<<lat, lng>>)
              ELSE None ]

\* GeocodeReply keeping a supplied coordinate and geocoding only the other.
GeocodeReply_keep_supplied(s, r) ==
    LET coords == geocode_location(r) IN
    IF coords.raised
    THEN [s EXCEPT !.location_info =
                       [ provided_location |-> s.location[1],
                         error |-> "Geocoding error",
                         source |-> "geocoding_exception" ],
                   !.pc = "places_start", !.reply = r]
    ELSE IF coords.value # None
    THEN LET lat == IF s.latitude # None THEN s.latitude[1] ELSE coords.value[1][1]
             lng == IF s.longitude # None THEN s.longitude[1] ELSE coords.value[1][2]
         IN  [s EXCEPT !.final_lat = Some(lat),
                       !.final_lng = Some(lng),
                       !.location_info =
                           [ provided_location |-> s.location[1],
                             geocoded_coordinates |->
                                 [ latitude |-> lat, longitude |-> lng ],
                             source |-> "geocoded" ],
                       !.pc = "places_start", !.reply = r]
    ELSE [s EXCEPT !.location_info = GeocodeFailedInfo(s),
                   !.pc = "places_start", !.reply = r]

\* lines 478-498
GeocodeReply(s, r) ==
    LET coords == geocode_location(r) IN
    IF coords.raised
    THEN [s EXCEPT !.location_info =
                       [ provided_location |-> s.location[1],
                         error |-> "Geocoding error",
                         source |-> "geocoding_exception" ],
                   !.pc = "places_start", !.reply = r]
    ELSE IF coords.value # None
    THEN [s EXCEPT !.final_lat = Some(coords.value[1][1]),
                   !.final_lng = Some(coords.value[1][2]),
                   !.location_info =
                       [ provided_location |-> s.location[1],
                         geocoded_coordinates |->
                             [ latitude |-> coords.value[1][1],
                               longitude |-> coords.value[1][2] ],
                         source |-> "geocoded" ],
                   !.pc = "places_start", !.reply = r]
    ELSE [s EXCEPT !.location_info = GeocodeFailedInfo(s),
                   !.pc = "places_start", !.reply = r]

(* Cafes *)

\* SearchStrategies with the last resort tried before the coffee shops.
SearchStrategies_restaurant_first(vibe) ==
    << [keyword |-> vibe \o <<" ">> \o S_cafe, type |-> "cafe"],
       [keyword |-> S_cafe, type |-> "cafe"],
       [keyword |-> S_restaurant, type |-> "restaurant"],
       [keyword |-> S_coffee, type |-> "cafe"] >>

\* lines 268-277
SearchStrategies(vibe) ==
    << [keyword |-> vibe \o <<" ">> \o S_cafe, type |-> "cafe"],
       [keyword |-> S_cafe, type |-> "cafe"],
       [keyword |-> S_coffee, type |-> "cafe"],
       [keyword |-> S_restaurant, type |-> "restaurant"] >>

\* lines 506-508 and 263-277
PlacesStart(s) ==
    IF s.final_lat # None /\ s.final_lng # None
    THEN IF Missing("GOOGLE_MAPS_API_KEY")
         THEN [Guarded(s, "cafes_res", Returned(<<>>), "assemble") EXCEPT !.reply = NoReply]
         ELSE [s EXCEPT !.search_strategies = SearchStrategies(s.vibe_description),
                        !.i = 1, !.pc = "places_call", !.reply = NoReply]
    ELSE [s EXCEPT !.pc = "assemble", !.reply = NoReply]

\* PlacesCall with latitude and longitude exchanged.
PlacesCall_swapped(s) ==
    Await(s, Call("places", s.search_strategies[s.i].keyword, s.search_strategies[s.i].type,
                  <<s.final_lng[1], s.final_lat[1]>>),
          "places_wait")

\* lines 279-293
PlacesCall(s) ==
    Await(s, Call("places", s.search_strategies[s.i].keyword, s.search_strategies[s.i].type,
                  <<s.final_lat[1], s.final_lng[1]>>),
          "places_wait")

\* PlacesAttempt treating every status but OK alike.
PlacesAttempt_no_terminal(r, keyword) ==
    LET status == Get(r.body, "status", PyNone)
        results == Take(Get(r.body, "results", <<>>), Limit)
    IN  IF r.kind = "json" /\ status = "OK" /\ results # <<>>
        THEN [return |-> TRUE, value |-> NormalizeCafes(results, keyword)]
        ELSE [return |-> FALSE, value |-> <<>>]

\* One pass of the loop body after the await, lines 294-357.
PlacesAttempt(r, keyword) ==
    LET status == Get(r.body, "status", PyNone)
        results == Take(Get(r.body, "results", <<>>), Limit)
    IN  IF r.kind # "json"
        THEN [return |-> FALSE, value |-> <<>>]
        ELSE IF status = "OK"
        THEN IF results # <<>>
             THEN [return |-> TRUE, value |-> NormalizeCafes(results, keyword)]
             ELSE [return |-> FALSE, value |-> <<>>]
        ELSE IF status \in {"REQUEST_DENIED", "OVER_QUERY_LIMIT"}
        THEN [return |-> TRUE, value |-> <<>>]
        ELSE [return |-> FALSE, value |-> <<>>]

\* lines 279-360
PlacesReply(s, r) ==
    LET a == PlacesAttempt(r, s.search_strategies[s.i].keyword) IN
    IF a.return
    THEN [Guarded(s, "cafes_res", Returned(a.value), "assemble") EXCEPT !.reply = r]
    ELSE IF s.i < Len(s.search_strategies)
    THEN [s EXCEPT !.i = @ + 1, !.pc = "places_call", !.reply = r]
    ELSE [Guarded(s, "cafes_res", Returned(<<>>), "assemble") EXCEPT !.reply = r]

(* The response *)

\* Assemble with a copied line: cafes_count taken from the movies.
Assemble_copied_count(s) ==
    [s EXCEPT
        !.pc = "done",
        !.reply = NoReply,
        !.result =
            [ kind |-> "response",
              value |->
                  [ vibe |-> s.vibe_description,
                    spotify_playlists |-> s.spotify_res,
                    youtube_recipes |-> s.youtube_res,
                    books |-> s.books_res,
                    movies |-> s.movies_res,
                    cafes |-> s.cafes_res,
                    location_info |-> s.location_info,
                    debug_info |->
                        [ spotify_count |-> Len(s.spotify_res),
                          youtube_count |-> Len(s.youtube_res),
                          books_count |-> Len(s.books_res),
                          movies_count |-> Len(s.movies_res),
                          cafes_count |-> Len(s.movies_res) ] ] ] ]

\* lines 512-527
Assemble(s) ==
    [s EXCEPT
        !.pc = "done",
        !.reply = NoReply,
        !.result =
            [ kind |-> "response",
              value |->
                  [ vibe |-> s.vibe_description,
                    spotify_playlists |-> s.spotify_res,
                    youtube_recipes |-> s.youtube_res,
                    books |-> s.books_res,
                    movies |-> s.movies_res,
                    cafes |-> s.cafes_res,
                    location_info |-> s.location_info,
                    debug_info |->
                        [ spotify_count |-> Len(s.spotify_res),
                          youtube_count |-> Len(s.youtube_res),
                          books_count |-> Len(s.books_res),
                          movies_count |-> Len(s.movies_res),
                          cafes_count |-> Len(s.cafes_res) ] ] ] ]

-----------------------------------------------------------------------------
(* Requests, scenarios and the next-state relation *)

\* The five providers and the HTTP services each one calls.
Providers == {"music", "videos", "books", "movies", "cafes"}

ProviderServices ==
    [ music |-> {"spotify_token", "spotify_search"},
      videos |-> {"youtube"},
      books |-> {"books"},
      movies |-> {"omdb"},
      cafes |-> {"places"} ]

\* The response slot of each provider.
ProviderSlot ==
    [ music |-> "spotify_res", videos |-> "youtube_res", books |-> "books_res",
      movies |-> "movies_res", cafes |-> "cafes_res" ]

Services ==
    {"spotify_token", "spotify_search", "youtube", "books", "omdb", "geocode", "places"}

\* Everything a service can answer.
ServiceReplies ==
    [ spotify_token |-> TokenReplies,
      spotify_search |-> SpotifyReplies,
      youtube |-> YoutubeReplies,
      books |-> BooksReplies,
      omdb |-> OmdbReplies,
      geocode |-> GeocodeReplies,
      places |-> PlacesReplies ]

\* What a service answers when all is well.
NominalReply ==
    [ spotify_token |-> Json([access_token |-> "tok"]),
      spotify_search |-> Json([items |-> <<P_full>>]),
      youtube |-> Json([items |-> <<V_full>>]),
      books |-> Json([items |-> <<B_full>>]),
      omdb |-> Json([Response |-> "True", Search |-> <<M_full>>]),
      geocode |-> Json([status |-> "OK", results |-> <<G_seattle, G_other>>]),
      places |-> Json([status |-> "OK", results |-> <<C_full>>]) ]

\* The replies service svc may give in this behaviour.
Replies(svc) == IF svc \in free THEN ServiceReplies[svc] ELSE {NominalReply[svc]}

\* No fault: request "inj", if any, gets the replies request "ref" gets.
NoFault == [target |-> "none", services |-> {}, reply |-> NoReply]

\* One provider fails with a transport error on all of its calls.
ProviderFaults ==
    { [target |-> p, services |-> ProviderServices[p], reply |-> Transport] : p \in Providers }

\* The geocoder finds no match, or fails.
GeocodeFaults ==
    { [target |-> "geocoder", services |-> {"geocode"}, reply |-> r] :
        r \in {Json([status |-> "ZERO_RESULTS", results |-> <<>>]), Transport} }

\* The reply request k receives when the service answers r.
Inject(k, svc, r) == IF k = "inj" /\ svc \in fault.services THEN fault.reply ELSE r

\* Vibe descriptions.
V_empty == <<>>
V_blank == <<" ", "\t", " ">>
V_cozy_rainy_day == S_cozy \o <<" ">> \o S_rainy \o <<" ">> \o S_day
V_Scary_night == <<"S","c","a","r","y"," ">> \o S_night
V_chill == <<" ">> \o S_chill
V_FUNNY == <<"F","U","N","N","Y">>
V_comedy_night == S_comedy \o <<" ">> \o S_night
V_spooky_adventure == S_spooky \o <<" ">> \o S_adventure
V_funny_rainy == S_funny \o <<" ">> \o S_rainy
V_scary_comedy == S_scary \o <<" ">> \o S_comedy
V_Exciting == <<"E","x","c","i","t","i","n","g">>
V_scar == <<"s","c","a","r">>

\* The vibes of whole requests.
Vibes == {V_empty, V_blank, V_cozy_rainy_day, V_Scary_night, V_chill}

\* The vibes fetch_omdb_movies is called with on its own.
MovieVibes ==
    { V_cozy_rainy_day, V_Scary_night, V_chill, V_FUNNY, V_comedy_night,
      V_spooky_adventure, V_funny_rainy, V_scary_comedy, V_Exciting, V_scar }

Locations == {None, Some(<<>>), Some(S_Seattle)}
Latitudes == {None, Some("12.97")}
Longitudes == {None, Some("77.59")}

Flag(b) == IF b THEN 1 ELSE 0

\* The most departures from the nominal scenario explored together.
MaxDeviations == 2

\* A scenario is the arguments of the request, the credentials, the services
\* that answer freely, and, when the request is served a second time against
\* the same replies, the fault injected in that second run.  The nominal
\* scenario is the end-to-end example: "cozy rainy day" in Seattle without
\* coordinates, every credential present, every service answering well.
\* These count in how many respects a scenario departs from it.
ArgDeviations(vibe, location, latitude, longitude) ==
    Flag(vibe # V_cozy_rainy_day)
    + Flag(location # Some(S_Seattle))
    + Flag(latitude # None \/ longitude # None)

\* The sets of credentials and of freely answering services within the bound.
Environs == { env \in SUBSET Credentials : Cardinality(Credentials \ env) <= MaxDeviations }
FreeSets == { fr \in SUBSET Services : Cardinality(fr) <= MaxDeviations }
Faults == {NoFault} \cup ProviderFaults \cup GeocodeFaults

Init ==
    \E vibe \in Vibes, location \in Locations, latitude \in Latitudes,
       longitude \in Longitudes :
        /\ ArgDeviations(vibe, location, latitude, longitude) <= MaxDeviations
        /\ \E env \in Environs :
            /\ ArgDeviations(vibe, location, latitude, longitude)
                   + Cardinality(Credentials \ env) <= MaxDeviations
            /\ \E ft \in Faults :
                /\ ArgDeviations(vibe, location, latitude, longitude)
                       + Cardinality(Credentials \ env) + Flag(ft # NoFault)
                       <= MaxDeviations
                /\ \E fr \in FreeSets :
                    /\ ArgDeviations(vibe, location, latitude, longitude)
                           + Cardinality(Credentials \ env) + Flag(ft # NoFault)
                           + Cardinality(fr) <= MaxDeviations
                    /\ runs = [k \in (IF ft = NoFault THEN {"ref"} ELSE {"ref", "inj"})
                                  |-> NewRequest(vibe, location, latitude, longitude)]
                    /\ environ = env
                    /\ free = fr
                    /\ fault = ft

\* The steps of a request, in program order; the two steps of a loop body
\* share a place and are ordered by the loop index.
PcOrder ==
    << {"start"}, {"spotify_token"}, {"spotify_token_wait"}, {"spotify_search"},
       {"spotify_search_wait"}, {"youtube"}, {"youtube_wait"}, {"books"},
       {"books_wait"}, {"omdb_start"}, {"omdb_call", "omdb_wait"}, {"location"},
       {"geocode_wait"}, {"places_start"}, {"places_call", "places_wait"},
       {"assemble"}, {"done"} >>

Rank(s) ==
    LET place == CHOOSE n \in 1..Len(PcOrder) : s.pc \in PcOrder[n]
    IN  100 * place + 2 * s.i + Flag(s.pc \in {"omdb_wait", "places_wait"})

\* The requests that step next: those furthest behind, so that two requests
\* served against the same replies receive them at the same calls.
Active ==
    { k \in DOMAIN runs :
        /\ runs[k].pc # "done"
        /\ \A j \in DOMAIN runs : runs[j].pc = "done" \/ Rank(runs[k]) <= Rank(runs[j]) }

\* Some request that steps next is at this label (then all of them are).
At(label) == \E k \in Active : runs[k].pc = label

ValidateStep ==
    /\ At("start")
    /\ runs' = [k \in DOMAIN runs |->
                 IF k \in Active THEN Validate(runs[k]) ELSE runs[k]]
    /\ UNCHANGED <<environ, free, fault>>

SpotifyTokenCallStep ==
    /\ At("spotify_token")
    /\ runs' = [k \in DOMAIN runs |->
                 IF k \in Active THEN SpotifyTokenCall(runs[k]) ELSE runs[k]]
    /\ UNCHANGED <<environ, free, fault>>

SpotifyTokenReplyStep ==
    /\ At("spotify_token_wait")
    /\ \E r \in Replies("spotify_token") :
          runs' = [k \in DOMAIN runs |->
                     IF k \in Active
                     THEN SpotifyTokenReply(runs[k], Inject(k, "spotify_token", r))
                     ELSE runs[k]]
    /\ UNCHANGED <<environ, free, fault>>

SpotifySearchCallStep ==
    /\ At("spotify_search")
    /\ runs' = [k \in DOMAIN runs |->
                 IF k \in Active THEN SpotifySearchCall(runs[k]) ELSE runs[k]]
    /\ UNCHANGED <<environ, free, fault>>

SpotifySearchReplyStep ==
    /\ At("spotify_search_wait")
    /\ \E r \in Replies("spotify_search") :
          runs' = [k \in DOMAIN runs |->
                     IF k \in Active
                     THEN SpotifySearchReply(runs[k], Inject(k, "spotify_search", r))
                     ELSE runs[k]]
    /\ UNCHANGED <<environ, free, fault>>

YoutubeCallStep ==
    /\ At("youtube")
    /\ runs' = [k \in DOMAIN runs |->
                 IF k \in Active THEN YoutubeCall(runs[k]) ELSE runs[k]]
    /\ UNCHANGED <<environ, free, fault>>

YoutubeReplyStep ==
    /\ At("youtube_wait")
    /\ \E r \in Replies("youtube") :
          runs' = [k \in DOMAIN runs |->
                     IF k \in Active
                     THEN YoutubeReply(runs[k], Inject(k, "youtube", r))
                     ELSE runs[k]]
    /\ UNCHANGED <<environ, free, fault>>

BooksCallStep ==
    /\ At("books")
    /\ runs' = [k \in DOMAIN runs |->
                 IF k \in Active THEN BooksCall(runs[k]) ELSE runs[k]]
    /\ UNCHANGED <<environ, free, fault>>

BooksReplyStep ==
    /\ At("books_wait")
    /\ \E r \in Replies("books") :
          runs' = [k \in DOMAIN runs |->
                     IF k \in Active
                     THEN BooksReply(runs[k], Inject(k, "books", r))
                     ELSE runs[k]]
    /\ UNCHANGED <<environ, free, fault>>

OmdbStartStep ==
    /\ At("omdb_start")
    /\ runs' = [k \in DOMAIN runs |->
                 IF k \in Active THEN OmdbStart(runs[k]) ELSE runs[k]]
    /\ UNCHANGED <<environ, free, fault>>

OmdbCallStep ==
    /\ At("omdb_call")
    /\ runs' = [k \in DOMAIN runs |->
                 IF k \in Active THEN OmdbCall(runs[k]) ELSE runs[k]]
    /\ UNCHANGED <<environ, free, fault>>

OmdbReplyStep ==
    /\ At("omdb_wait")
    /\ \E r \in Replies("omdb") :
          runs' = [k \in DOMAIN runs |->
                     IF k \in Active
                     THEN OmdbReply(runs[k], Inject(k, "omdb", r))
                     ELSE runs[k]]
    /\ UNCHANGED <<environ, free, fault>>

ResolveLocationStep ==
    /\ At("location")
    /\ runs' = [k \in DOMAIN runs |->
                 IF k \in Active THEN ResolveLocation(runs[k]) ELSE runs[k]]
    /\ UNCHANGED <<environ, free, fault>>

GeocodeReplyStep ==
    /\ At("geocode_wait")
    /\ \E r \in Replies("geocode") :
          runs' = [k \in DOMAIN runs |->
                     IF k \in Active
                     THEN GeocodeReply(runs[k], Inject(k, "geocode", r))
                     ELSE runs[k]]
    /\ UNCHANGED <<environ, free, fault>>

PlacesStartStep ==
    /\ At("places_start")
    /\ runs' = [k \in DOMAIN runs |->
                 IF k \in Active THEN PlacesStart(runs[k]) ELSE runs[k]]
    /\ UNCHANGED <<environ, free, fault>>

PlacesCallStep ==
    /\ At("places_call")
    /\ runs' = [k \in DOMAIN runs |->
                 IF k \in Active THEN PlacesCall(runs[k]) ELSE runs[k]]
    /\ UNCHANGED <<environ, free, fault>>

PlacesReplyStep ==
    /\ At("places_wait")
    /\ \E r \in Replies("places") :
          runs' = [k \in DOMAIN runs |->
                     IF k \in Active
                     THEN PlacesReply(runs[k], Inject(k, "places", r))
                     ELSE runs[k]]
    /\ UNCHANGED <<environ, free, fault>>

AssembleStep ==
    /\ At("assemble")
    /\ runs' = [k \in DOMAIN runs |->
                 IF k \in Active THEN Assemble(runs[k]) ELSE runs[k]]
    /\ UNCHANGED <<environ, free, fault>>

Next ==
    \/ ValidateStep
    \/ SpotifyTokenCallStep
    \/ SpotifyTokenReplyStep
    \/ SpotifySearchCallStep
    \/ SpotifySearchReplyStep
    \/ YoutubeCallStep
    \/ YoutubeReplyStep
    \/ BooksCallStep
    \/ BooksReplyStep
    \/ OmdbStartStep
    \/ OmdbCallStep
    \/ OmdbReplyStep
    \/ ResolveLocationStep
    \/ GeocodeReplyStep
    \/ PlacesStartStep
    \/ PlacesCallStep
    \/ PlacesReplyStep
    \/ AssembleStep

Spec == Init /\ [][Next]_vars

\* Every await has a 20 s timeout and the event loop resumes a coroutine
\* whose await completed: a request that can step does step.
FairSpec == Spec /\ WF_vars(Next)

\* fetch_omdb_movies called on its own, with more vibes: the request starts
\* at the helper and stops when it returns.
InitMovies ==
    \E vibe \in MovieVibes, env \in {Credentials, Credentials \ {"OMDB_API_KEY"}} :
        /\ runs = [k \in {"ref"} |->
                      [NewRequest(vibe, None, None, None) EXCEPT !.pc = "omdb_start"]]
        /\ environ = env
        /\ free = {"omdb"}
        /\ fault = NoFault

NextMovies == OmdbStartStep \/ OmdbCallStep \/ OmdbReplyStep

SpecMovies == InitMovies /\ [][NextMovies]_vars

(* Cancellation *)

\* The awaits of a request: where the event loop can throw into it.
WaitPcs ==
    { "spotify_token_wait", "spotify_search_wait", "youtube_wait", "books_wait",
      "omdb_wait", "geocode_wait", "places_wait" }

\* "except Exception" as before Python 3.8, when CancelledError derived from
\* Exception.
IsException_py37(exc) == TRUE

\* Whether "except Exception" matches: asyncio.CancelledError derives from
\* BaseException (the annotation "str | None" of line 66 needs Python 3.10).
IsException(exc) == exc # "CancelledError"

\* The handler of the await a request is suspended at.
Resume(s, r) ==
    CASE s.pc = "spotify_token_wait" -> SpotifyTokenReply(s, r)
      [] s.pc = "spotify_search_wait" -> SpotifySearchReply(s, r)
      [] s.pc = "youtube_wait" -> YoutubeReply(s, r)
      [] s.pc = "books_wait" -> BooksReply(s, r)
      [] s.pc = "omdb_wait" -> OmdbReply(s, r)
      [] s.pc = "geocode_wait" -> GeocodeReply(s, r)
      [] s.pc = "places_wait" -> PlacesReply(s, r)

\* The pending await raises exc.  An exception the except clauses match is
\* handled like any failure of the call; another one leaves the helper, the
\* provider's try (lines 452-510) and the outer try (lines 529-532), which
\* all name Exception or McpError: the coroutine ends with it.
Thrown(s, exc) ==
    IF IsException(exc)
    THEN Resume(s, Transport)
    ELSE [s EXCEPT !.pc = "done", !.reply = NoReply, !.result = [kind |-> "cancelled"]]

\* The caller cancels the request while it is suspended at an await.
CancelStep ==
    /\ \E k \in Active : runs[k].pc \in WaitPcs
    /\ runs' = [k \in DOMAIN runs |->
                 IF k \in Active THEN Thrown(runs[k], "CancelledError") ELSE runs[k]]
    /\ UNCHANGED <<environ, free, fault>>

NextCancel == Next \/ CancelStep

SpecCancel == Init /\ [][NextCancel]_vars

-----------------------------------------------------------------------------
(* Properties *)

\* A vibe that is empty or made of whitespace only.
Blank(v) == \A j \in 1..Len(v) : v[j] \in Whitespace

\* The calls a request has issued to one service, in order.
CallsTo(s, svc) == SelectSeq(s.net, LAMBDA c : c.svc = svc)

Returned_response(s) == s.pc = "done" /\ s.result.kind = "response"
Raised_error(s, code) ==
    s.pc = "done" /\ s.result.kind = "error" /\ s.result.code = code

AllDone == \A k \in DOMAIN runs : runs[k].pc = "done"

\* C1: a request whose vibe description is empty or whitespace-only, whatever
\* its location, latitude and longitude, never gets past validation: it has
\* issued no outbound call at any point, and it ends with INVALID_PARAMS.
C1_BlankVibeRejected ==
    \A k \in DOMAIN runs :
        LET s == runs[k] IN
        Blank(s.vibe_description) =>
            /\ s.net = <<>>
            /\ s.pc \in {"start", "done"}
            /\ s.pc = "done" => Raised_error(s, "INVALID_PARAMS")

\* A whitespace-only vibe with a location and coordinates has been rejected.
C1_Witness ==
    \E k \in DOMAIN runs :
        /\ runs[k].vibe_description = V_blank
        /\ runs[k].location = Some(S_Seattle)
        /\ runs[k].latitude # None
        /\ runs[k].longitude # None
        /\ Raised_error(runs[k], "INVALID_PARAMS")

\* C2: every request ends; a request with a non-blank vibe ends with a
\* response whatever the services answered, and only a request with a blank
\* vibe ends with an error.
C2_AlwaysAnswers ==
    /\ <>AllDone
    /\ [](\A k \in DOMAIN runs :
            runs[k].pc = "done" =>
                /\ runs[k].result.kind \in {"response", "error"}
                /\ runs[k].result.kind = "error" <=> Blank(runs[k].vibe_description)
                /\ runs[k].result.kind = "response" <=> ~Blank(runs[k].vibe_description))

\* A response has been returned although books raised and every movie
\* search term failed.
C2_Witness ==
    \E k \in DOMAIN runs :
        /\ Returned_response(runs[k])
        /\ Len(CallsTo(runs[k], "books")) = 1
        /\ runs[k].books_res = <<>>
        /\ Len(CallsTo(runs[k], "omdb")) = 4
        /\ runs[k].movies_res = <<>>
        /\ runs[k].spotify_res # <<>>

\* The keys of the five providers' lists in the response.
ResponseKey ==
    [ music |-> "spotify_playlists", videos |-> "youtube_recipes", books |-> "books",
      movies |-> "movies", cafes |-> "cafes" ]

\* C3: when one provider fails with a transport error on all of its calls,
\* the request still returns a response, in which that provider's list is
\* empty and the four other lists are those of the same request served
\* against the same replies without the failure.
C3_OneProviderFails ==
    (fault.target \in Providers /\ AllDone /\ ~Blank(runs["ref"].vibe_description)) =>
        /\ Returned_response(runs["ref"])
        /\ Returned_response(runs["inj"])
        /\ runs["inj"].result.value[ResponseKey[fault.target]] = <<>>
        /\ \A q \in Providers \ {fault.target} :
              runs["inj"].result.value[ResponseKey[q]]
                  = runs["ref"].result.value[ResponseKey[q]]

\* The failure made a difference to the failing provider's list only: without
\* it the five lists are non-empty, with it the four others still are.
C3_Witness ==
    /\ fault.target \in Providers
    /\ AllDone
    /\ Returned_response(runs["ref"])
    /\ \A q \in Providers : runs["ref"].result.value[ResponseKey[q]] # <<>>
    /\ runs["inj"].result.value[ResponseKey[fault.target]] = <<>>
    /\ \A q \in Providers \ {fault.target} :
          runs["inj"].result.value[ResponseKey[q]] # <<>>

\* C4: when latitude, longitude and a location name are all supplied, the
\* geocoder is never called, every places search is made at the supplied
\* coordinates (and one is made when the key is present), and the provenance
\* is provided_coordinates.
C4_CoordinatesWin ==
    \A k \in DOMAIN runs :
        LET s == runs[k] IN
        (s.latitude # None /\ s.longitude # None /\ LocationGiven(s)) =>
            /\ CallsTo(s, "geocode") = <<>>
            /\ \A j \in 1..Len(s.net) :
                  s.net[j].svc = "places" =>
                      s.net[j].at = <<s.latitude[1], s.longitude[1]>>
            /\ Returned_response(s) =>
                  /\ "source" \in DOMAIN s.result.value.location_info
                  /\ s.result.value.location_info.source = "provided_coordinates"
                  /\ ~Missing("GOOGLE_MAPS_API_KEY") => CallsTo(s, "places") # <<>>

\* A response to a request with a location name and both coordinates, after
\* places searches.
C4_Witness ==
    \E k \in DOMAIN runs :
        /\ Returned_response(runs[k])
        /\ runs[k].location = Some(S_Seattle)
        /\ runs[k].latitude # None
        /\ runs[k].longitude # None
        /\ Len(CallsTo(runs[k], "places")) >= 2

\* The provenance recorded in a response, "" when none is.
Provenance(s) == Get(s.result.value.location_info, "source", "")

\* C5: when a location name is given without both coordinates and geocoding
\* finds no match or fails, the response has no cafes, no places search was
\* made and the provenance is failed_geocoding; the music, videos, books and
\* movies lists are those of the same request served against the same
\* replies with the geocoder left alone.
C5_GeocodeFailureIsolated ==
    /\ \A k \in DOMAIN runs :
          (Returned_response(runs[k]) /\ Provenance(runs[k]) = "failed_geocoding") =>
              /\ runs[k].result.value.cafes = <<>>
              /\ CallsTo(runs[k], "places") = <<>>
    /\ ( /\ fault.target = "geocoder"
         /\ AllDone
         /\ LocationGiven(runs["inj"])
         /\ runs["inj"].latitude = None \/ runs["inj"].longitude = None
         /\ ~Blank(runs["inj"].vibe_description) ) =>
            /\ Returned_response(runs["inj"])
            /\ Provenance(runs["inj"]) = "failed_geocoding"
            /\ runs["inj"].result.value.cafes = <<>>
            /\ CallsTo(runs["inj"], "places") = <<>>
            /\ \A q \in Providers \ {"cafes"} :
                  runs["inj"].result.value[ResponseKey[q]]
                      = runs["ref"].result.value[ResponseKey[q]]

\* Geocoding succeeded in one run and found cafes, and failed in the other,
\* whose four other lists are non-empty.
C5_Witness ==
    /\ fault.target = "geocoder"
    /\ AllDone
    /\ Returned_response(runs["ref"])
    /\ Provenance(runs["ref"]) = "geocoded"
    /\ runs["ref"].result.value.cafes # <<>>
    /\ Provenance(runs["inj"]) = "failed_geocoding"
    /\ Len(CallsTo(runs["inj"], "geocode")) = 1
    /\ \A q \in Providers \ {"cafes"} : runs["inj"].result.value[ResponseKey[q]] # <<>>

\* The reply held is the one the movie loop has just handled.
OmdbReplied(s) == s.reply # NoReply /\ s.pc \in {"omdb_call", "location"}

\* The raw hits of an OMDb reply, <<>> when it is a failure or a no-results body.
OmdbHits(r) ==
    IF r.kind = "json" /\ Get(r.body, "Response", PyNone) # "False"
    THEN Get(r.body, "Search", <<>>)
    ELSE <<>>

\* A request that has left the movie loop.
PastMovies(s) ==
    s.pc \in { "location", "geocode_wait", "places_start", "places_call", "places_wait",
               "assemble", "done" }

ScaryQueries ==
    << V_Scary_night,
       <<"S","c","a","r","y"," ","n","i","g","h","t"," ","m","o","v","i","e">>,
       <<"h","o","r","r","o","r">> >>

OneHit == Json([Response |-> "True", Search |-> <<M_full>>])

\* C6: the movie loop queries its candidates in list order, each at most
\* once; the first reply with at least one hit ends the loop, its hits (at
\* most Limit, null items dropped) being the result, and no movie query is
\* issued afterwards.  For "Scary night", when the third reply is the first
\* with a hit and has one item, the queries are the vibe, the vibe followed
\* by " movie" and "horror", and that item is the result.
C6_MovieFallbackOrder ==
    /\ [](\A k \in DOMAIN runs :
            LET s == runs[k]
                calls == CallsTo(s, "omdb")
                terms == SearchTerms(s.vibe_description)
            IN  /\ Len(calls) <= Len(terms)
                /\ \A j \in 1..Len(calls) : calls[j].q = terms[j]
                /\ (OmdbReplied(s) /\ OmdbHits(s.reply) # <<>>) =>
                      /\ s.pc = "location"
                      /\ LET kept == SelectSeq(Take(OmdbHits(s.reply), Limit), Truthy)
                         IN  s.movies_res = [j \in 1..Len(kept) |-> Movie(kept[j])]
                /\ (OmdbReplied(s) /\ s.pc = "omdb_call") => s.movies_res = <<>>
                /\ ( /\ s.vibe_description = V_Scary_night
                     /\ OmdbReplied(s)
                     /\ s.reply = OneHit
                     /\ Len(calls) = 3 ) =>
                      /\ [j \in 1..3 |-> calls[j].q] = ScaryQueries
                      /\ s.movies_res
                            = << [title |-> "Alien", year |-> "1979", type |-> "movie"] >>)
    /\ [][\A k \in DOMAIN runs :
            PastMovies(runs[k]) =>
                /\ CallsTo(runs'[k], "omdb") = CallsTo(runs[k], "omdb")
                /\ runs'[k].movies_res = runs[k].movies_res]_vars

\* "Scary night" has returned one movie found by the third query.
C6_Witness ==
    \E k \in DOMAIN runs :
        /\ runs[k].vibe_description = V_Scary_night
        /\ Returned_response(runs[k])
        /\ [j \in 1..Len(CallsTo(runs[k], "omdb")) |-> CallsTo(runs[k], "omdb")[j].q]
              = ScaryQueries
        /\ Len(runs[k].result.value.movies) = 1

Counts(s) == s.result.value.debug_info

\* C7: in every response each provider's count is the length of that
\* provider's list in the same response, empty lists included.
C7_CountsMatchLists ==
    \A k \in DOMAIN runs :
        Returned_response(runs[k]) =>
            LET v == runs[k].result.value IN
            /\ Counts(runs[k]).spotify_count = Len(v.spotify_playlists)
            /\ Counts(runs[k]).youtube_count = Len(v.youtube_recipes)
            /\ Counts(runs[k]).books_count = Len(v.books)
            /\ Counts(runs[k]).movies_count = Len(v.movies)
            /\ Counts(runs[k]).cafes_count = Len(v.cafes)

\* A response whose lists have three different lengths, the cafes list being
\* empty.
C7_Witness ==
    \E k \in DOMAIN runs :
        /\ Returned_response(runs[k])
        /\ Counts(runs[k]).cafes_count = 0
        /\ Counts(runs[k]).movies_count = 1
        /\ Counts(runs[k]).books_count > 1

\* The reply held is the one the places loop has just handled.
PlacesReplied(s) == s.reply # NoReply /\ s.pc \in {"places_call", "assemble"}

PlacesStatus(r) == IF r.kind = "json" THEN Get(r.body, "status", PyNone) ELSE PyNone

PlacesNoResults(r) ==
    \/ PlacesStatus(r) = "ZERO_RESULTS"
    \/ PlacesStatus(r) = "OK" /\ Get(r.body, "results", <<>>) = <<>>

\* C8: in the places loop a REQUEST_DENIED or OVER_QUERY_LIMIT reply ends the
\* loop with no cafes and no later strategy is queried, whereas a
\* ZERO_RESULTS reply or an OK reply without results moves on to the next
\* strategy while one is left.
C8_PlacesTerminalFailure ==
    /\ [](\A k \in DOMAIN runs :
            LET s == runs[k]
                calls == CallsTo(s, "places")
            IN  PlacesReplied(s) =>
                    /\ PlacesStatus(s.reply) \in {"REQUEST_DENIED", "OVER_QUERY_LIMIT"} =>
                          /\ s.pc = "assemble"
                          /\ s.cafes_res = <<>>
                    /\ (PlacesNoResults(s.reply) /\ Len(calls) < 4) =>
                          /\ s.pc = "places_call"
                          /\ s.i = Len(calls) + 1
                          /\ s.search_strategies = SearchStrategies(s.vibe_description))
    /\ [][\A k \in DOMAIN runs :
            runs[k].pc \in {"assemble", "done"} =>
                /\ CallsTo(runs'[k], "places") = CallsTo(runs[k], "places")
                /\ runs'[k].cafes_res = runs[k].cafes_res]_vars

\* The second strategy was answered REQUEST_DENIED after the first found
\* nothing, and the response has no cafes.
C8_Witness ==
    \E k \in DOMAIN runs :
        /\ PlacesReplied(runs[k])
        /\ PlacesStatus(runs[k].reply) = "REQUEST_DENIED"
        /\ Len(CallsTo(runs[k], "places")) = 2
        /\ runs[k].pc = "assemble"

\* What OMDb answers for a bad key and for an exhausted quota: HTTP 401, or a
\* body carrying one of its two error messages.
OmdbTerminal(r) ==
    \/ r.kind = "http_status" /\ r.code = 401
    \/ /\ r.kind = "json"
       /\ Get(r.body, "Response", PyNone) = "False"
       /\ Get(r.body, "Error", "") \in {"Invalid API key!", "Request limit reached!"}

\* C9: in the movie loop a reply reporting invalid credentials or an
\* exhausted quota ends the loop at once with no movies: no further candidate
\* is queried.
C9_MovieTerminalFailure ==
    \A k \in DOMAIN runs :
        (OmdbReplied(runs[k]) /\ OmdbTerminal(runs[k].reply)) =>
            /\ runs[k].pc = "location"
            /\ runs[k].movies_res = <<>>

\* The mood table: the words of each bucket and the qualifiers it appends, in
\* the order the buckets are checked.
MoodBuckets ==
    << [words |-> {S_cozy, S_rainy}, qualifiers |-> <<S_romantic_comedy, S_drama>>],
       [words |-> {S_adventure, S_exciting}, qualifiers |-> <<S_action, S_adventure>>],
       [words |-> {S_scary, S_spooky}, qualifiers |-> <<S_horror>>],
       [words |-> {S_funny, S_comedy}, qualifiers |-> <<S_comedy>>] >>

\* The word occurs in the text, letter case ignored.
Occurs(text, word) ==
    \E off \in 0..(Len(text) - Len(word)) :
        \A j \in 1..Len(word) : LowerChar(text[off + j]) = word[j]

BucketMatches(vibe, b) == \E w \in MoodBuckets[b].words : Occurs(vibe, w)

ExpectedQualifiers(vibe) ==
    IF \E b \in 1..Len(MoodBuckets) : BucketMatches(vibe, b)
    THEN LET first == CHOOSE b \in 1..Len(MoodBuckets) :
                          /\ BucketMatches(vibe, b)
                          /\ \A c \in 1..(b - 1) : ~BucketMatches(vibe, c)
         IN  MoodBuckets[first].qualifiers
    ELSE <<>>

ExpectedTerms(vibe) ==
    <<vibe, vibe \o <<" ","m","o","v","i","e">>>> \o ExpectedQualifiers(vibe)

\* The candidates are those of the mood table, and so are the queries made.
CandidatesFollowTable ==
    \A k \in DOMAIN runs :
        LET s == runs[k]
            calls == CallsTo(s, "omdb")
        IN  /\ s.pc \in {"omdb_call", "omdb_wait"} =>
                  s.search_terms = ExpectedTerms(s.vibe_description)
            /\ Len(calls) <= Len(ExpectedTerms(s.vibe_description))
            /\ \A j \in 1..Len(calls) : calls[j].q = ExpectedTerms(s.vibe_description)[j]

CandidatesOf(vibe, terms) ==
    \A k \in DOMAIN runs :
        (runs[k].vibe_description = vibe /\ runs[k].pc \in {"omdb_call", "omdb_wait"}) =>
            runs[k].search_terms = terms

ExpectedStrategies(vibe) ==
    << [keyword |-> vibe \o <<" ","c","a","f","e">>, type |-> "cafe"],
       [keyword |-> <<"c","a","f","e">>, type |-> "cafe"],
       [keyword |-> <<"c","o","f","f","e","e">>, type |-> "cafe"],
       [keyword |-> <<"r","e","s","t","a","u","r","a","n","t">>, type |-> "restaurant"] >>

\* The raw results of a places reply, <<>> unless its status is OK.
PlacesHits(r) ==
    IF PlacesStatus(r) = "OK" THEN Get(r.body, "results", <<>>) ELSE <<>>

\* C11: the places loop queries at most four strategies, the j-th query being
\* the j-th of: vibe-specific cafe (type cafe), cafe (type cafe), coffee (type
\* cafe), restaurant (type restaurant); the first OK reply with at least one
\* result ends the loop, the result being that strategy's items (at most
\* Limit, null items dropped, each tagged with that strategy), and the loop
\* goes on only while nothing was found.
C11_PlacesFallbackOrder ==
    /\ [](\A k \in DOMAIN runs :
            LET s == runs[k]
                calls == CallsTo(s, "places")
                expected == ExpectedStrategies(s.vibe_description)
            IN  /\ Len(calls) <= 4
                /\ \A j \in 1..Len(calls) :
                      /\ calls[j].q = expected[j].keyword
                      /\ calls[j].type = expected[j].type
                /\ (PlacesReplied(s) /\ PlacesHits(s.reply) # <<>>) =>
                      LET kept == SelectSeq(Take(PlacesHits(s.reply), Limit), Truthy) IN
                      /\ s.pc = "assemble"
                      /\ Len(s.cafes_res) = Len(kept)
                      /\ \A j \in 1..Len(kept) :
                            /\ s.cafes_res[j].search_strategy = expected[Len(calls)].keyword
                            /\ s.cafes_res[j].name = Get(kept[j], "name", "Unknown Cafe")
                /\ (PlacesReplied(s) /\ s.pc = "places_call") =>
                      /\ s.cafes_res = <<>>
                      /\ PlacesHits(s.reply) = <<>>)
    /\ [][\A k \in DOMAIN runs :
            LET before == CallsTo(runs[k], "places")
                after == CallsTo(runs'[k], "places")
            IN  \/ after = before
                \/ /\ Len(after) = Len(before) + 1
                   /\ SubSeq(after, 1, Len(before)) = before
                   /\ runs[k].cafes_res = <<>>]_vars

\* The response carries the cafes the third strategy, coffee, found after the
\* first two found nothing.
C11_Witness ==
    \E k \in DOMAIN runs :
        /\ Returned_response(runs[k])
        /\ Len(CallsTo(runs[k], "places")) = 3
        /\ runs[k].result.value.cafes # <<>>
        /\ runs[k].result.value.cafes[1].search_strategy = <<"c","o","f","f","e","e">>

\* C12: a request that supplies neither a location name nor coordinates
\* never calls the geocoder or the places provider, and its response has no
\* cafes and records the provenance not_requested.
C12_NoLocationRequested ==
    \A k \in DOMAIN runs :
        LET s == runs[k] IN
        (~LocationGiven(s) /\ s.latitude = None /\ s.longitude = None) =>
            /\ CallsTo(s, "geocode") = <<>>
            /\ CallsTo(s, "places") = <<>>
            /\ Returned_response(s) =>
                  /\ s.result.value.cafes = <<>>
                  /\ Provenance(s) = "not_requested"

\* The part of C12 about the calls and the cafes, without the provenance.
C12_NoLocationNoCafes ==
    \A k \in DOMAIN runs :
        LET s == runs[k] IN
        (~LocationGiven(s) /\ s.latitude = None /\ s.longitude = None) =>
            /\ CallsTo(s, "geocode") = <<>>
            /\ CallsTo(s, "places") = <<>>
            /\ Returned_response(s) =>
                  /\ s.result.value.cafes = <<>>
                  /\ s.result.value.location_info = EmptyDict

\* The credentials each provider needs (books needs none).
Needs ==
    [ music |-> {"SPOTIFY_CLIENT_ID", "SPOTIFY_CLIENT_SECRET"},
      videos |-> {"YOUTUBE_API_KEY"},
      books |-> {},
      movies |-> {"OMDB_API_KEY"},
      cafes |-> {"GOOGLE_MAPS_API_KEY"} ]

Absent(p) == Needs[p] \ environ # {}

\* The services a provider calls, geocoding counted with the cafes.
CalledBy(p) == IF p = "cafes" THEN {"places", "geocode"} ELSE ProviderServices[p]

CallsBy(s, p) == SelectSeq(s.net, LAMBDA c : c.svc \in CalledBy(p))

\* C13: a provider one of whose credentials is absent issues no call at any
\* point (geocoding included for the maps key); the request still returns a
\* response, in which that provider's list is empty, and every other
\* provider whose credentials are present has issued its calls (the cafes when
\* both coordinates were supplied).
C13_AbsentCredentialSkips ==
    \A k \in DOMAIN runs :
        LET s == runs[k] IN
        \A p \in Providers :
            Absent(p) =>
                /\ CallsBy(s, p) = <<>>
                /\ s[ProviderSlot[p]] = <<>>
                /\ (s.pc = "done" /\ ~Blank(s.vibe_description)) =>
                      /\ Returned_response(s)
                      /\ s.result.value[ResponseKey[p]] = <<>>
                      /\ \A q \in Providers \ {"cafes"} :
                            ~Absent(q) => CallsBy(s, q) # <<>>
                      /\ ( /\ ~Absent("cafes")
                           /\ s.latitude # None
                           /\ s.longitude # None ) => CallsTo(s, "places") # <<>>

\* A response without the OMDb key: no movie query, no movies, and the lists
\* of the other providers filled.
C13_Witness ==
    \E k \in DOMAIN runs :
        /\ "OMDB_API_KEY" \notin environ
        /\ Returned_response(runs[k])
        /\ CallsTo(runs[k], "omdb") = <<>>
        /\ runs[k].result.value.movies = <<>>
        /\ \A q \in Providers \ {"movies"} : runs[k].result.value[ResponseKey[q]] # <<>>

Cancelled(s) == s.result.kind = "cancelled"

\* C14: a request cancelled while it waits for a call, whichever call it is
\* and whatever the providers before it returned, ends cancelled at once: its
\* outcome is neither a response nor an error and carries no provider result,
\* its call log does not grow, and it takes no further step.  Cancellation
\* can be delivered at every await.
C14_CancelDiscards ==
    /\ [](\A k \in DOMAIN runs :
            /\ Cancelled(runs[k]) =>
                  /\ runs[k].pc = "done"
                  /\ DOMAIN runs[k].result = {"kind"}
            /\ (k \in Active /\ runs[k].pc \in WaitPcs) => ENABLED CancelStep)
    /\ [][CancelStep =>
            \A k \in Active :
                /\ Cancelled(runs'[k])
                /\ runs'[k].net = runs[k].net]_vars
    /\ [][\A k \in DOMAIN runs : Cancelled(runs[k]) => runs'[k] = runs[k]]_vars

\* A request cancelled during the books call, after the videos were fetched.
C14_Witness ==
    \E k \in DOMAIN runs :
        /\ Cancelled(runs[k])
        /\ runs[k].youtube_res # <<>>
        /\ Len(CallsTo(runs[k], "books")) = 1
        /\ CallsTo(runs[k], "omdb") = <<>>

\* Per provider: the label reached once its reply is handled, the key of the
\* raw items in the reply, and the display field, raw and normalized.
DisplayFields ==
    [ music |-> [after |-> "youtube", items |-> "items", raw |-> "name", shown |-> "name"],
      videos |-> [after |-> "books", items |-> "items", raw |-> "title", shown |-> "title"],
      books |-> [after |-> "omdb_start", items |-> "items", raw |-> "title", shown |-> "title"],
      movies |-> [after |-> "location", items |-> "Search", raw |-> "Title", shown |-> "title"],
      cafes |-> [after |-> "assemble", items |-> "results", raw |-> "name", shown |-> "name"] ]

\* What the helpers put in place of a display field the raw item lacks.
Placeholders == {PyNone, "Unknown", "Unknown Title", "Unknown Cafe"}

\* The raw items of a reply that carry the field.
Complete(r, key, field) ==
    SelectSeq(Get(r.body, key, <<>>), LAMBDA it : field \in DOMAIN it)

\* C15: no provider's list holds an item built from a raw item without its
\* display field (name for playlists and cafes, title for videos, books and
\* movies): such raw items are dropped, so a list is never longer than the
\* raw items of its reply that carry the field, and no item shows a
\* placeholder.  (No raw item of the replies carries a placeholder itself.)
C15_NoPartialItems ==
    \A k \in DOMAIN runs :
        LET s == runs[k] IN
        \A p \in Providers :
            LET f == DisplayFields[p]
                list == s[ProviderSlot[p]]
            IN  /\ \A j \in 1..Len(list) : list[j][f.shown] \notin Placeholders
                /\ (s.reply # NoReply /\ s.pc = f.after) =>
                      Len(list) <= Len(Complete(s.reply, f.items, f.raw))

\* The videos alone keep to it.
C15_VideosComplete ==
    \A k \in DOMAIN runs :
        LET s == runs[k] IN
        /\ \A j \in 1..Len(s.youtube_res) : s.youtube_res[j].title \notin Placeholders
        /\ (s.reply # NoReply /\ s.pc = "books") =>
              Len(s.youtube_res) <= Len(Complete(s.reply, "items", "title"))

\* The positions in the call log of the calls to a service.
PositionsOf(s, svc) == { j \in 1..Len(s.net) : s.net[j].svc = svc }

\* The first candidate of a geocoding reply, EmptyDict when there is none.
FirstCandidate(r) ==
    IF r.kind = "json" /\ Get(r.body, "status", PyNone) = "OK"
       /\ Get(r.body, "results", <<>>) # <<>>
    THEN r.body.results[1]
    ELSE EmptyDict

\* C16: a places call is issued only once location resolution is over: none
\* is logged before the request has left the geocoding await, and every
\* places call comes after the geocoding call in the log.  When the
\* coordinates come from geocoding they are those of the reply's first
\* candidate, they are recorded in location_info, they do not change
\* afterwards, and every places call is made at exactly these coordinates.
C16_PlacesAfterResolution ==
    /\ [](\A k \in DOMAIN runs :
            LET s == runs[k] IN
            /\ CallsTo(s, "places") # <<>> =>
                  s.pc \in {"places_call", "places_wait", "assemble", "done"}
            /\ \A g \in PositionsOf(s, "geocode"), p \in PositionsOf(s, "places") : g < p
            /\ Len(CallsTo(s, "geocode")) <= 1
            /\ (s.reply # NoReply /\ s.pc = "places_start"
                    /\ DOMAIN FirstCandidate(s.reply) = {"lat", "lng"}) =>
                  /\ s.final_lat = Some(FirstCandidate(s.reply).lat)
                  /\ s.final_lng = Some(FirstCandidate(s.reply).lng)
                  /\ Get(s.location_info, "source", "") = "geocoded"
            /\ Get(s.location_info, "source", "") = "geocoded" =>
                  /\ CallsTo(s, "geocode") # <<>>
                  /\ s.final_lat = Some(s.location_info.geocoded_coordinates.latitude)
                  /\ s.final_lng = Some(s.location_info.geocoded_coordinates.longitude)
                  /\ \A p \in PositionsOf(s, "places") :
                        s.net[p].at = << s.location_info.geocoded_coordinates.latitude,
                                         s.location_info.geocoded_coordinates.longitude >>)
    /\ [][\A k \in DOMAIN runs :
            runs[k].pc \in {"places_start", "places_call", "places_wait", "assemble"} =>
                /\ runs'[k].location_info = runs[k].location_info
                /\ runs'[k].final_lat = runs[k].final_lat
                /\ runs'[k].final_lng = runs[k].final_lng]_vars

\* A response after geocoding "Seattle" and two places searches, both at the
\* coordinates the geocoder returned.
C16_Witness ==
    \E k \in DOMAIN runs :
        /\ Returned_response(runs[k])
        /\ Provenance(runs[k]) = "geocoded"
        /\ Len(CallsTo(runs[k], "places")) = 2
        /\ \A j \in 1..2 : CallsTo(runs[k], "places")[j].at = <<"47.60", "-122.33">>

\* A failed call that tells nothing about the credential or the quota: no
\* answer, a server error, a body that is not JSON or is null.
CallFailed(r) ==
    \/ r.kind \in {"transport", "bad_json", "json_null"}
    \/ r.kind = "http_status" /\ r.code = 500

\* A places body whose status is none of the four the loop knows.
PlacesUnknownStatus(r) ==
    /\ r.kind = "json"
    /\ PlacesStatus(r) \notin {"OK", "ZERO_RESULTS", "REQUEST_DENIED", "OVER_QUERY_LIMIT"}

\* C17: in the movie loop and in the places loop a candidate whose call
\* failed (transport error, HTTP 500, body not JSON or null; for places also
\* an unknown status) only loses that candidate: the next one in order is
\* the next queried, the loop ending without result only after the last
\* candidate; and a reply with usable hits is returned whatever happened to
\* the candidates before it.
C17_CandidateFailureContained ==
    \A k \in DOMAIN runs :
        LET s == runs[k]
            movies == CallsTo(s, "omdb")
            places == CallsTo(s, "places")
        IN  /\ (OmdbReplied(s) /\ CallFailed(s.reply)) =>
                  IF Len(movies) < Len(ExpectedTerms(s.vibe_description))
                  THEN /\ s.pc = "omdb_call"
                       /\ s.search_terms[s.i] = ExpectedTerms(s.vibe_description)[Len(movies) + 1]
                  ELSE s.pc = "location" /\ s.movies_res = <<>>
            /\ (PlacesReplied(s) /\ (CallFailed(s.reply) \/ PlacesUnknownStatus(s.reply))) =>
                  IF Len(places) < 4
                  THEN /\ s.pc = "places_call"
                       /\ s.search_strategies[s.i]
                              = ExpectedStrategies(s.vibe_description)[Len(places) + 1]
                  ELSE s.pc = "assemble" /\ s.cafes_res = <<>>
            /\ (OmdbReplied(s) /\ SelectSeq(Take(OmdbHits(s.reply), Limit), Truthy) # <<>>) =>
                  s.pc = "location" /\ s.movies_res # <<>>
            /\ (PlacesReplied(s) /\ SelectSeq(Take(PlacesHits(s.reply), Limit), Truthy) # <<>>) =>
                  s.pc = "assemble" /\ s.cafes_res # <<>>

\* The second places strategy has just failed with a body that is not JSON
\* and the third is next, in a request whose movies were found by a query
\* after the first.
C17_Witness ==
    \E k \in DOMAIN runs :
        /\ PlacesReplied(runs[k])
        /\ runs[k].reply = BadJson
        /\ Len(CallsTo(runs[k], "places")) = 2
        /\ runs[k].pc = "places_call"
        /\ runs[k].i = 3
        /\ Len(CallsTo(runs[k], "omdb")) >= 2
        /\ runs[k].movies_res # <<>>

\* A reply whose hits are all null or empty objects.
OnlyNullHits(hits) == hits # <<>> /\ SelectSeq(Take(hits, Limit), Truthy) = <<>>

\* C18: with its credential present, a fallback loop ends with the empty
\* sequence only after its last candidate was queried, or, for places, on a
\* reply reporting REQUEST_DENIED or OVER_QUERY_LIMIT.
C18_EmptyOnlyWhenExhausted ==
    \A k \in DOMAIN runs :
        LET s == runs[k] IN
        /\ (OmdbReplied(s) /\ s.pc = "location" /\ s.movies_res = <<>>) =>
              Len(CallsTo(s, "omdb")) = Len(ExpectedTerms(s.vibe_description))
        /\ (PlacesReplied(s) /\ s.pc = "assemble" /\ s.cafes_res = <<>>) =>
              \/ Len(CallsTo(s, "places")) = 4
              \/ PlacesStatus(s.reply) \in {"REQUEST_DENIED", "OVER_QUERY_LIMIT"}

\* C18 holds for every reply but those whose hits are all null.
C18_ExceptNullHits ==
    \A k \in DOMAIN runs :
        LET s == runs[k] IN
        /\ (OmdbReplied(s) /\ s.pc = "location" /\ s.movies_res = <<>>) =>
              \/ Len(CallsTo(s, "omdb")) = Len(ExpectedTerms(s.vibe_description))
              \/ OnlyNullHits(OmdbHits(s.reply))
        /\ (PlacesReplied(s) /\ s.pc = "assemble" /\ s.cafes_res = <<>>) =>
              \/ Len(CallsTo(s, "places")) = 4
              \/ PlacesStatus(s.reply) \in {"REQUEST_DENIED", "OVER_QUERY_LIMIT"}
              \/ OnlyNullHits(PlacesHits(s.reply))

\* The reply held is the one geocode_location has just handled.
GeocodeReplied(s) == s.reply # NoReply /\ s.pc = "places_start"

\* The candidates of a geocoding reply, <<>> unless its status is OK.
Candidates(r) ==
    IF r.kind = "json" /\ Get(r.body, "status", PyNone) = "OK"
    THEN Get(r.body, "results", <<>>)
    ELSE <<>>

HasBoth(c) == {"lat", "lng"} \subseteq DOMAIN c

\* What C19 says of every reply: one geocoding call at most, never the
\* provenance geocoding_exception (geocode_location does not raise), absent
\* coordinates when the key is missing (no call then) or when the reply is a
\* failure, is malformed, reports no match or has no candidate.
GeocodeNeverRaises ==
    \A k \in DOMAIN runs :
        LET s == runs[k] IN
        /\ Len(CallsTo(s, "geocode")) <= 1
        /\ Get(s.location_info, "source", "") # "geocoding_exception"
        /\ ("GOOGLE_MAPS_API_KEY" \notin environ) =>
              /\ CallsTo(s, "geocode") = <<>>
              /\ Get(s.location_info, "source", "") # "geocoded"
        /\ (GeocodeReplied(s) /\ Candidates(s.reply) = <<>>) =>
              /\ s.location_info.source = "failed_geocoding"
              /\ s.final_lat = s.latitude
              /\ s.final_lng = s.longitude

\* The coordinates are those of the first candidate of the reply.
FirstCandidateTaken(s) ==
    /\ s.location_info.source = "geocoded"
    /\ s.final_lat = Some(Get(Candidates(s.reply)[1], "lat", PyNone))
    /\ s.final_lng = Some(Get(Candidates(s.reply)[1], "lng", PyNone))

\* C19 as stated: geocode_location makes one query at most and never
\* raises, so that geocoding_exception is never recorded; it returns the
\* first candidate's coordinates when the reply is OK and at least one
\* candidate has both lat and lng, and absent coordinates when there is no
\* match, the reply is malformed, the call fails or the key is missing.
C19_AsStated ==
    /\ GeocodeNeverRaises
    /\ \A k \in DOMAIN runs :
          (GeocodeReplied(runs[k]) /\ \E j \in 1..Len(Candidates(runs[k].reply)) :
                                         HasBoth(Candidates(runs[k].reply)[j])) =>
              FirstCandidateTaken(runs[k])

\* C19, amended: geocode_location makes one query at most and never raises,
\* so that geocoding_exception is never recorded; it returns the first
\* candidate's coordinates when the reply is OK and its first candidate has
\* both lat and lng, and absent coordinates otherwise: when that candidate
\* lacks one (whatever the later candidates hold), when there is no match,
\* the reply is malformed, the call fails or the key is missing.
C19_GeocodeFirstCandidate ==
    /\ GeocodeNeverRaises
    /\ \A k \in DOMAIN runs :
          LET s == runs[k] IN
          (GeocodeReplied(s) /\ Candidates(s.reply) # <<>>) =>
              IF HasBoth(Candidates(s.reply)[1])
              THEN FirstCandidateTaken(s)
              ELSE /\ s.location_info.source = "failed_geocoding"
                   /\ s.final_lat = s.latitude
                   /\ s.final_lng = s.longitude

\* Geocoding has just returned the coordinates of the first of two
\* candidates.
C19_Witness ==
    \E k \in DOMAIN runs :
        /\ GeocodeReplied(runs[k])
        /\ Len(Candidates(runs[k].reply)) = 2
        /\ runs[k].final_lat = Some("47.60")
        /\ runs[k].final_lng = Some("-122.33")
        /\ runs[k].location_info.source = "geocoded"

\* The reply held is the one of the token endpoint, just handled.
TokenReplied(s) ==
    /\ s.reply # NoReply
    /\ s.pc \in {"spotify_search", "youtube"}
    /\ CallsTo(s, "spotify_search") = <<>>

\* The token a reply of the token endpoint carries, "" when it carries none.
IssuedToken(r) ==
    IF r.kind = "json" /\ "access_token" \in DOMAIN r.body THEN r.body.access_token ELSE ""

\* C20: the playlist search is issued at most once, after the token call,
\* and only with the non-empty token that call returned; when the token call
\* fails or returns no token the search is never issued and the music list
\* is empty, while the videos, books and movies providers (their credentials
\* present) still make their calls.
C20_TokenBeforeSearch ==
    /\ [](\A k \in DOMAIN runs :
            LET s == runs[k] IN
            /\ Len(CallsTo(s, "spotify_token")) <= 1
            /\ Len(CallsTo(s, "spotify_search")) <= 1
            /\ \A p \in PositionsOf(s, "spotify_search") :
                  \E g \in PositionsOf(s, "spotify_token") : g < p
            /\ s.pc \in {"spotify_search", "spotify_search_wait"} =>
                  s.token \notin {PyNone, ""}
            /\ TokenReplied(s) =>
                  IF IssuedToken(s.reply) # ""
                  THEN s.pc = "spotify_search" /\ s.token = IssuedToken(s.reply)
                  ELSE s.pc = "youtube" /\ s.spotify_res = <<>>
            /\ (s.pc = "done" /\ ~Blank(s.vibe_description)
                    /\ CallsTo(s, "spotify_search") = <<>>) =>
                  /\ Returned_response(s)
                  /\ s.result.value.spotify_playlists = <<>>
                  /\ \A q \in {"videos", "books", "movies"} :
                        ~Absent(q) => CallsBy(s, q) # <<>>)
    /\ [][\A k \in DOMAIN runs :
            runs[k].pc \notin {"start", "spotify_token", "spotify_token_wait",
                               "spotify_search"} =>
                /\ CallsTo(runs'[k], "spotify_search") = CallsTo(runs[k], "spotify_search")
                /\ CallsTo(runs'[k], "spotify_token") = CallsTo(runs[k], "spotify_token")]_vars

\* A response after a token call that gave no token: no playlist search, no
\* playlists, and videos, books and movies fetched.
C20_Witness ==
    \E k \in DOMAIN runs :
        /\ Returned_response(runs[k])
        /\ Len(CallsTo(runs[k], "spotify_token")) = 1
        /\ CallsTo(runs[k], "spotify_search") = <<>>
        /\ runs[k].result.value.spotify_playlists = <<>>
        /\ runs[k].result.value.youtube_recipes # <<>>
        /\ runs[k].result.value.books # <<>>
        /\ runs[k].result.value.movies # <<>>

\* Exactly one of latitude and longitude is supplied.
OneCoordinate(s) == (s.latitude = None) # (s.longitude = None)

\* The request is past location resolution (lines 473-503).
Resolved(s) ==
    \/ s.pc \in {"places_start", "places_call", "places_wait", "assemble"}
    \/ Returned_response(s)

\* C21: a request with exactly one of latitude and longitude and a location
\* name is resolved as if it had no coordinates: it never records the
\* provenance provided_coordinates; with the maps key present it has made,
\* once past resolution, exactly one geocoding call, for the location name
\* (none with the key missing, where the geocoder returns at once); its
\* provenance is then geocoded or failed_geocoding, geocoded exactly when the
\* reply is OK and its first candidate has both coordinates, and that is the
\* provenance of its response.
C21_OneCoordinateIsAbsent ==
    \A k \in DOMAIN runs :
        LET s == runs[k]
            calls == CallsTo(s, "geocode")
        IN  (OneCoordinate(s) /\ LocationGiven(s)) =>
                /\ Get(s.location_info, "source", "") # "provided_coordinates"
                /\ Len(calls) <= 1
                /\ \A j \in 1..Len(calls) : calls[j].q = s.location[1]
                /\ (s.pc = "geocode_wait" \/ Resolved(s)) =>
                      Len(calls) = IF "GOOGLE_MAPS_API_KEY" \in environ THEN 1 ELSE 0
                /\ Resolved(s) =>
                      Get(s.location_info, "source", "") \in {"geocoded", "failed_geocoding"}
                /\ GeocodeReplied(s) =>
                      (s.location_info.source = "geocoded"
                          <=> HasBoth(FirstCandidate(s.reply)))
                /\ ("GOOGLE_MAPS_API_KEY" \notin environ /\ Resolved(s)) =>
                      s.location_info.source = "failed_geocoding"
                /\ Returned_response(s) =>
                      Provenance(s) = Get(s.location_info, "source", "")

\* Two responses to a request with only a latitude and a location name, each
\* after one geocoding call: one geocoded, and one, whose geocoding call was
\* made to fail, with the provenance failed_geocoding.
C21_Witness ==
    \E k, j \in DOMAIN runs :
        /\ runs[k].latitude # None /\ runs[k].longitude = None
        /\ LocationGiven(runs[k])
        /\ Returned_response(runs[k]) /\ Returned_response(runs[j])
        /\ Len(CallsTo(runs[k], "geocode")) = 1
        /\ Len(CallsTo(runs[j], "geocode")) = 1
        /\ Provenance(runs[k]) = "geocoded"
        /\ Provenance(runs[j]) = "failed_geocoding"

\* Both effective coordinates are present.
BothEffective(s) == s.final_lat # None /\ s.final_lng # None

Geocoded(s) == Get(s.location_info, "source", "") = "geocoded"

\* The effective pair comes from one source: the geocoding reply's first
\* candidate, or the request's own latitude and longitude.
OneSource(s) ==
    /\ (GeocodeReplied(s) /\ Geocoded(s)) =>
          /\ s.final_lat = Some(Get(FirstCandidate(s.reply), "lat", PyNone))
          /\ s.final_lng = Some(Get(FirstCandidate(s.reply), "lng", PyNone))
    /\ (Resolved(s) /\ Geocoded(s)) =>
          /\ s.final_lat = Some(s.location_info.geocoded_coordinates.latitude)
          /\ s.final_lng = Some(s.location_info.geocoded_coordinates.longitude)
    /\ (Resolved(s) /\ ~Geocoded(s)) =>
          /\ s.final_lat = s.latitude
          /\ s.final_lng = s.longitude

\* C22: a places call is made only with both effective coordinates present,
\* and, the maps key being present, a request past the places step has made
\* one exactly when both are present; the effective pair is the geocoded
\* pair when geocoding succeeded and the supplied latitude and longitude
\* otherwise, never one of each, and every places call is made at that pair;
\* a request with one supplied coordinate that was not geocoded makes no
\* places call and its cafes are empty.
C22_PlacesIffBothCoordinates ==
    \A k \in DOMAIN runs :
        LET s == runs[k]
            places == CallsTo(s, "places")
        IN  /\ places # <<>> => (Resolved(s) /\ BothEffective(s))
            /\ ((s.pc = "assemble" \/ Returned_response(s))
                    /\ "GOOGLE_MAPS_API_KEY" \in environ) =>
                  (places # <<>> <=> BothEffective(s))
            /\ OneSource(s)
            /\ \A j \in 1..Len(places) :
                  /\ places[j].at = <<s.final_lat[1], s.final_lng[1]>>
                  /\ \/ /\ ~Geocoded(s)
                        /\ s.latitude # None /\ s.longitude # None
                        /\ places[j].at = <<s.latitude[1], s.longitude[1]>>
                     \/ /\ Geocoded(s)
                        /\ places[j].at =
                              << s.location_info.geocoded_coordinates.latitude,
                                 s.location_info.geocoded_coordinates.longitude >>
            /\ (OneCoordinate(s) /\ Resolved(s) /\ ~Geocoded(s)) =>
                  /\ ~BothEffective(s)
                  /\ places = <<>>
                  /\ s.cafes_res = <<>>
                  /\ Returned_response(s) => s.result.value.cafes = <<>>

\* Two responses to a request with only a latitude and a location name: one
\* whose places calls were made at the geocoded pair, which shares nothing
\* with the supplied latitude, and one whose geocoding failed, with no places
\* call and no cafes.
C22_Witness ==
    \E k, j \in DOMAIN runs :
        /\ runs[k].latitude # None /\ runs[k].longitude = None
        /\ Returned_response(runs[k]) /\ Returned_response(runs[j])
        /\ Geocoded(runs[k])
        /\ CallsTo(runs[k], "places") # <<>>
        /\ CallsTo(runs[k], "places")[1].at[1] # runs[k].latitude[1]
        /\ ~Geocoded(runs[j])
        /\ CallsTo(runs[j], "places") = <<>>
        /\ runs[j].result.value.cafes = <<>>

\* The most calls one request makes to each service, and the place of the
\* service in the order of the calls.
CallLimits ==
    [ spotify_token |-> 1, spotify_search |-> 1, youtube |-> 1, books |-> 1,
      omdb |-> 4, geocode |-> 1, places |-> 4 ]

ServiceOrder ==
    [ spotify_token |-> 1, spotify_search |-> 2, youtube |-> 3, books |-> 4,
      omdb |-> 5, geocode |-> 6, places |-> 7 ]

\* C23: at every point of every run a request has made at most 1 token and
\* 1 search call (2 for music), 1 videos call, 1 books call, 4 movies calls,
\* 1 geocoding call and 4 places calls, to no other service, hence at most 13
\* calls; no call is sent again: the calls follow the order of the program,
\* two calls to one service are only successive movie candidates or
\* successive places strategies, and the j-th of them is for the j-th
\* candidate or strategy.
C23_CallsBounded ==
    \A k \in DOMAIN runs :
        LET s == runs[k]
            omdb == CallsTo(s, "omdb")
            places == CallsTo(s, "places")
        IN  /\ \A j \in 1..Len(s.net) : s.net[j].svc \in Services
            /\ \A svc \in Services : Len(CallsTo(s, svc)) <= CallLimits[svc]
            /\ Len(CallsBy(s, "music")) <= 2
            /\ Len(s.net) <= 13
            /\ \A i, j \in 1..Len(s.net) :
                  i < j =>
                      \/ ServiceOrder[s.net[i].svc] < ServiceOrder[s.net[j].svc]
                      \/ /\ s.net[i].svc = s.net[j].svc
                         /\ s.net[i].svc \in {"omdb", "places"}
            /\ Len(omdb) <= Len(SearchTerms(s.vibe_description))
            /\ \A j \in 1..Len(omdb) : omdb[j].q = SearchTerms(s.vibe_description)[j]
            /\ Len(places) <= Len(SearchStrategies(s.vibe_description))
            /\ \A j \in 1..Len(places) :
                  /\ places[j].q = SearchStrategies(s.vibe_description)[j].keyword
                  /\ places[j].type = SearchStrategies(s.vibe_description)[j].type

\* A response after 13 calls: token, search, videos, books, four movie
\* candidates, geocoding and four places strategies.
C23_Witness ==
    \E k \in DOMAIN runs :
        /\ Returned_response(runs[k])
        /\ Len(runs[k].net) = 13
        /\ Len(CallsTo(runs[k], "omdb")) = 4
        /\ Len(CallsTo(runs[k], "places")) = 4
        /\ Len(CallsTo(runs[k], "geocode")) = 1

=============================================================================
